---- MODULE Spec2Model ----
(***************************************************************************)
(* The load-driven scale-measurement harness of the performance test       *)
(* TestScaleRevisionByLoad: a sweep over concurrency tiers, each tier a    *)
(* run of scaleRevisionByLoad in its own subtest, with an endpoints        *)
(* informer whose UpdateFunc appends scale events to a mutex-guarded slice *)
(* while the load generator runs.                                          *)
(***************************************************************************)
EXTENDS Integers, Sequences, FiniteSets, TLC

\* ------------------------------------------------------------------ bounds
NumTiers == 2      \* how many entries of concurrentClients the sweep runs
MaxNotifs == 1     \* count-changing notifications delivered in one run of the suite
Second == 2        \* clock readings per second (time.Second in clock units)
MaxDeliveries == 2 \* notifications delivered to a watcher whose deliveries are noted
MaxCalls == 3      \* lifecycle methods called on one ServerlessServiceStatus

\* --------------------------------------------------------------- constants
qpsPerClient == 10
iterationSeconds == 60
concurrentClients == <<10, 20, 40, 80, 160, 320>>

Tiers == 1..NumTiers

\* fmt.Sprintf("clients-%03d", numClients)
SubtestName(t) ==
    <<"clients-010", "clients-020", "clients-040",
      "clients-080", "clients-160", "clients-320">>[t]

\* names.Service = test.ObjectNameForTest(t): a name built from the subtest's name
ServiceName(t) == <<"scale-revision-by-load", SubtestName(t)>>

\* The names of the endpoints objects the informer can report: every tier's
\* service has one, and the cluster has others.
EndpointsNames ==
    {ServiceName(t) \o <<"private">> : t \in Tiers} \cup {<<"kubernetes">>}

\* resources.ReadyAddressCount of an endpoints object: no ready address, or some
ReadyCounts == {0, 1}

\* strings.Contains(s, substr)
Contains(s, substr) ==
    \E i \in 0..(Len(s) - Len(substr)) : SubSeq(s, i + 1, i + Len(substr)) = substr

VARIABLES
    tier,          \* index into concurrentClients of the running subtest
    pc,            \* the statement the test goroutine is at
    failed,        \* the parent test has been marked failed
    failedPhase,   \* per tier: the phase whose t.Fatalf ended it, or "none"
    tornDown,      \* per tier: how many times TearDown has run
    scaleEvents,   \* per tier: the slice of scale events
    scaleEventsMutex, \* per tier: "free", "test" or "callback"
    stopCh,        \* per tier: "none", "open" or "closed"
    informer,      \* per tier: "none", "running", "unsynced" or "stopped"
    callback,      \* per tier: the UpdateFunc invocation in flight
    startTime,     \* per tier: resp.Result[0].StartTime, or -1
    resp,          \* per tier: the load result, or NoResp
    tcLocal,       \* the tc slice of the running scaleRevisionByLoad
    tc,            \* the tc slice of TestScaleRevisionByLoad
    output,        \* what CreateXMLOutput was given, once it has written it
    now,           \* per tier: the latest reading of the wall clock in the tier's closure
    hist,          \* per tier: the steps the tier has taken, in order
    changes,       \* per tier: count-changing matching notifications delivered
    lastChange,    \* per tier: the two counts of the latest of them
    atStop,        \* per tier: scaleEvents when close(stopCh) returned
    reported,      \* per tier: the events the report loop read
    cleanups,      \* the tiers whose TearDown is registered with CleanupOnInterrupt
    delivered,     \* per tier: the notifications the informer has delivered, in order
    conditions,    \* the Status.Conditions of a ServerlessServiceStatus
    calls          \* the lifecycle methods called on that status, in order

vars == <<tier, pc, failed, failedPhase, tornDown, scaleEvents, scaleEventsMutex,
          stopCh, informer, callback, startTime, resp, tcLocal, tc, output, now,
          hist, changes, lastChange, atStop, reported, cleanups, delivered,
          conditions, calls>>

\* The variables of the scale test, and those of the ServerlessServiceStatus
testVars == <<tier, pc, failed, failedPhase, tornDown, scaleEvents, scaleEventsMutex,
              stopCh, informer, callback, startTime, resp, tcLocal, tc, output, now,
              hist, changes, lastChange, atStop, reported, cleanups, delivered>>
statusVars == <<conditions, calls>>

NoEvent == [oldScale |-> 0, newScale |-> 0, timestamp |-> 0, watcher |-> 0]
Idle == [at |-> "idle", event |-> NoEvent]
NoResp == [Count |-> -1, ActualQPS |-> -1, ErrorsPercentage |-> -1]
\* A value not yet taken, and a value taken
Unset == [set |-> FALSE, val |-> <<>>]
Taken(v) == [set |-> TRUE, val |-> v]

\* The results RunLoadTest can return without an error: one result entry
\* (LoadFactors has one element), of a run in which every request of the
\* requested rate was sent and answered, or of a run with no sample at all.
FullResult(t) ==
    [Count |-> qpsPerClient * concurrentClients[t] * iterationSeconds,
     ActualQPS |-> qpsPerClient * concurrentClients[t],
     ErrorsPercentage |-> 0]
EmptyResult == [Count |-> 0, ActualQPS |-> 0, ErrorsPercentage |-> 0]
LoadResults(t) == {FullResult(t), EmptyResult}

\* resp.Result[0].DurationHistogram.Percentiles
Percentiles == <<[Percentile |-> 50, Value |-> 1], [Percentile |-> 99, Value |-> 2]>>

Init ==
    /\ tier = 1
    /\ pc = "Setup"
    /\ failed = FALSE
    /\ failedPhase = [t \in Tiers |-> "none"]
    /\ tornDown = [t \in Tiers |-> 0]
    /\ scaleEvents = [t \in Tiers |-> <<>>]
    /\ scaleEventsMutex = [t \in Tiers |-> "free"]
    /\ stopCh = [t \in Tiers |-> "none"]
    /\ informer = [t \in Tiers |-> "none"]
    /\ callback = [t \in Tiers |-> Idle]
    /\ startTime = [t \in Tiers |-> -1]
    /\ resp = [t \in Tiers |-> NoResp]
    /\ tcLocal = <<>>
    /\ tc = <<>>
    /\ output = Unset
    /\ now = [t \in Tiers |-> 0]
    /\ hist = [t \in Tiers |-> <<>>]
    /\ changes = [t \in Tiers |-> 0]
    /\ lastChange = [t \in Tiers |-> <<0, 0>>]
    /\ atStop = [t \in Tiers |-> Unset]
    /\ reported = [t \in Tiers |-> Unset]
    /\ cleanups = {}
    /\ delivered = [t \in Tiers |-> <<>>]
    /\ conditions = <<>>
    /\ calls = <<>>

\* ------------------------------------------------------------ test case records
\* perf.CreatePerfTestCase(value, name, t.Name())
CreatePerfTestCase(value, name, testName) ==
    [test |-> testName, name |-> name, value |-> value]

MetricName(m) == [metric |-> m, a |-> 0, b |-> 0]
\* fmt.Sprintf("scale-from-%02d-to-%02d(seconds)", ev.oldScale, ev.newScale)
ScaleName(ev) == [metric |-> "scale-from-to(seconds)", a |-> ev.oldScale, b |-> ev.newScale]
\* fmt.Sprintf("p%d(ms)", int(p.Percentile))
PercentileName(p) == [metric |-> "p(ms)", a |-> p.Percentile, b |-> 0]

\* Go's integer division: the quotient is truncated toward zero
TruncDiv(a, b) == IF a >= 0 THEN a \div b ELSE -((-a) \div b)

\* float32(ev.timestamp.Sub(resp.Result[0].StartTime) / time.Second)
ElapsedSeconds(ev, st) == TruncDiv(ev.timestamp - st, Second)

\* The fixed metrics with requestedQPS and actualQPS in each other's place
FixedMetrics_Swapped(t, r) ==
    << CreatePerfTestCase(r.Count, MetricName("requestCount"), SubtestName(t)),
       CreatePerfTestCase(r.ActualQPS, MetricName("actualQPS"), SubtestName(t)),
       CreatePerfTestCase(qpsPerClient * concurrentClients[t], MetricName("requestedQPS"),
                          SubtestName(t)),
       CreatePerfTestCase(r.ErrorsPercentage, MetricName("errorsPercentage"),
                          SubtestName(t)) >>

\* lines 177-180: the four fixed metrics
FixedMetrics(t, r) ==
    << CreatePerfTestCase(r.Count, MetricName("requestCount"), SubtestName(t)),
       CreatePerfTestCase(qpsPerClient * concurrentClients[t], MetricName("requestedQPS"),
                          SubtestName(t)),
       CreatePerfTestCase(r.ActualQPS, MetricName("actualQPS"), SubtestName(t)),
       CreatePerfTestCase(r.ErrorsPercentage, MetricName("errorsPercentage"),
                          SubtestName(t)) >>

\* A report loop that skips the events recorded before the load started
ScaleRecords_DropEarly(t, evs, st) ==
    LET kept == SelectSeq(evs, LAMBDA ev : ev.timestamp >= st)
    IN  [i \in 1..Len(kept) |->
            CreatePerfTestCase(ElapsedSeconds(kept[i], st), ScaleName(kept[i]),
                               SubtestName(t))]

\* lines 184-187: one record per element of scaleEvents, in slice order
ScaleRecords(t, evs, st) ==
    [i \in 1..Len(evs) |->
        CreatePerfTestCase(ElapsedSeconds(evs[i], st), ScaleName(evs[i]), SubtestName(t))]

\* lines 189-193: one record per percentile, the value in milliseconds
PercentileRecords(t) ==
    [i \in 1..Len(Percentiles) |->
        CreatePerfTestCase(Percentiles[i].Value * 1000, PercentileName(Percentiles[i]),
                           SubtestName(t))]

\* time.Now() in the closure of tier t: the clock is read in ticks, and a
\* reading is later than the one before it. The readings of one tier are never
\* compared with those of another (line 186 subtracts the tier's own start
\* time), so each tier counts its own.
TimeNow(t) == {now[t] + 1}

\* ------------------------------------------------------------ the sweep
\* The loop of TestScaleRevisionByLoad: t.Run returns when the subtest has
\* ended, however it ended, and the loop goes on to the next element.
NextTier ==
    /\ tier' = tier + 1
    /\ pc' = IF tier = NumTiers THEN "CreateXMLOutput" ELSE "Setup"

\* A fatal failure that ends the process at once (log.Fatalf), running no
\* deferred call
Fatalf_NoDeferred(phase, deferred) ==
    /\ failedPhase' = [failedPhase EXCEPT ![tier] = phase]
    /\ failed' = TRUE
    /\ tornDown' = tornDown
    /\ tcLocal' = <<>>
    /\ NextTier

\* t.Fatalf in the subtest: the subtest and its parent are marked failed and the
\* subtest's goroutine exits, running the deferred calls registered so far
\* (TearDown once line 87 has run). Nothing after the call is executed, and
\* scaleRevisionByLoad returns nothing to line 67.
Fatalf(phase, deferred) ==
    /\ failedPhase' = [failedPhase EXCEPT ![tier] = phase]
    /\ failed' = TRUE
    /\ tornDown' = IF deferred THEN [tornDown EXCEPT ![tier] = @ + 1] ELSE tornDown
    /\ tcLocal' = <<>>
    /\ NextTier

\* lines 76-88: Setup(t), whose failure comes before the TearDown is deferred;
\* then the TearDown is deferred and registered with CleanupOnInterrupt
Setup ==
    /\ pc = "Setup"
    /\ tier \in Tiers
    /\ \E ok \in BOOLEAN :
         IF ok
         THEN /\ pc' = "CreateService"
              /\ hist' = [hist EXCEPT ![tier] = Append(@, "setup")]
              /\ cleanups' = cleanups \cup {tier}
              /\ UNCHANGED <<tier, failed, failedPhase, tornDown, tcLocal>>
         ELSE /\ Fatalf("setup", FALSE)
              /\ UNCHANGED <<hist, cleanups>>
    /\ UNCHANGED <<scaleEvents, scaleEventsMutex, stopCh, informer, callback, startTime,
                   resp, tc, output, now, changes, lastChange, atStop, reported>>
    /\ UNCHANGED <<delivered, conditions, calls>>

\* lines 90-102: the service is created; from here on a t.Fatalf runs the
\* deferred TearDown
CreateService ==
    /\ pc = "CreateService"
    /\ \E ok \in BOOLEAN :
         IF ok
         THEN /\ pc' = "GetIngressEndpoint"
              /\ hist' = [hist EXCEPT ![tier] = Append(@, "service")]
              /\ UNCHANGED <<tier, failed, failedPhase, tornDown, tcLocal>>
         ELSE /\ Fatalf("create", TRUE)
              /\ UNCHANGED hist
    /\ UNCHANGED <<scaleEvents, scaleEventsMutex, stopCh, informer, callback, startTime,
                   resp, tc, output, now, changes, lastChange, atStop, reported>>
    /\ UNCHANGED <<cleanups, delivered, conditions, calls>>

\* lines 104-108
GetIngressEndpoint ==
    /\ pc = "GetIngressEndpoint"
    /\ \E ok \in BOOLEAN :
         IF ok
         THEN /\ pc' = "WaitForEndpointState"
              /\ hist' = [hist EXCEPT ![tier] = Append(@, "endpoint")]
              /\ UNCHANGED <<tier, failed, failedPhase, tornDown, tcLocal>>
         ELSE /\ Fatalf("endpoint", TRUE)
              /\ UNCHANGED hist
    /\ UNCHANGED <<scaleEvents, scaleEventsMutex, stopCh, informer, callback, startTime,
                   resp, tc, output, now, changes, lastChange, atStop, reported>>
    /\ UNCHANGED <<cleanups, delivered, conditions, calls>>

\* A readiness probe whose failure is reported with t.Errorf: the test is marked
\* failed and goes on
WaitForEndpointState_Errorf ==
    /\ pc = "WaitForEndpointState"
    /\ \E ok \in BOOLEAN :
         IF ok
         THEN /\ hist' = [hist EXCEPT ![tier] = Append(@, "ready")]
              /\ UNCHANGED <<failed, failedPhase>>
         ELSE /\ failedPhase' = [failedPhase EXCEPT ![tier] = "readiness"]
              /\ failed' = TRUE
              /\ UNCHANGED hist
    /\ pc' = "StartInformers"
    /\ UNCHANGED <<tier, tornDown, tcLocal, scaleEvents, scaleEventsMutex, stopCh, informer,
                   callback, startTime, resp, tc, output, now, changes, lastChange, atStop,
                   reported>>
    /\ UNCHANGED <<cleanups, delivered, conditions, calls>>

\* lines 110-123: the readiness probe; an error (a timeout included) is fatal
WaitForEndpointState ==
    /\ pc = "WaitForEndpointState"
    /\ \E ok \in BOOLEAN :
         IF ok
         THEN /\ pc' = "StartInformers"
              /\ hist' = [hist EXCEPT ![tier] = Append(@, "ready")]
              /\ UNCHANGED <<tier, failed, failedPhase, tornDown, tcLocal>>
         ELSE /\ Fatalf("readiness", TRUE)
              /\ UNCHANGED hist
    /\ UNCHANGED <<scaleEvents, scaleEventsMutex, stopCh, informer, callback, startTime,
                   resp, tc, output, now, changes, lastChange, atStop, reported>>
    /\ UNCHANGED <<cleanups, delivered, conditions, calls>>

\* lines 125-151: the tier's own slice, mutex and stop channel are made, the
\* UpdateFunc is registered and the informer is started. StartInformers
\* returns an error when the informer's cache did not sync; the call's result
\* is discarded, so the test goes on to the load run either way.
StartInformers ==
    /\ pc = "StartInformers"
    /\ scaleEvents' = [scaleEvents EXCEPT ![tier] = <<>>]
    /\ scaleEventsMutex' = [scaleEventsMutex EXCEPT ![tier] = "free"]
    /\ stopCh' = [stopCh EXCEPT ![tier] = "open"]
    /\ \E err \in BOOLEAN :
         informer' = [informer EXCEPT ![tier] = IF err THEN "unsynced" ELSE "running"]
    /\ hist' = [hist EXCEPT ![tier] = Append(@, "watcher")]
    /\ pc' = "RunLoadTest"
    /\ UNCHANGED <<tier, failed, failedPhase, tornDown, callback, startTime, resp, tcLocal,
                   tc, output, now, changes, lastChange, atStop, reported>>
    /\ UNCHANGED <<cleanups, delivered, conditions, calls>>

\* A load run started with the stop channel already closed
RunLoadTest_StopFirst ==
    /\ pc = "RunLoadTest"
    /\ \E st \in TimeNow(tier) :
         /\ now' = [now EXCEPT ![tier] = st]
         /\ startTime' = [startTime EXCEPT ![tier] = st]
    /\ stopCh' = [stopCh EXCEPT ![tier] = "closed"]
    /\ hist' = [hist EXCEPT ![tier] = @ \o <<"stop", "loadStart">>]
    /\ pc' = "Loading"
    /\ UNCHANGED <<tier, failed, failedPhase, tornDown, scaleEvents, scaleEventsMutex,
                   informer, callback, resp, tcLocal, tc, output,
                   changes, lastChange, atStop, reported>>
    /\ UNCHANGED <<cleanups, delivered, conditions, calls>>

\* line 165, the call: the load generator starts and notes its start time
RunLoadTest ==
    /\ pc = "RunLoadTest"
    /\ \E st \in TimeNow(tier) :
         /\ now' = [now EXCEPT ![tier] = st]
         /\ startTime' = [startTime EXCEPT ![tier] = st]
    /\ hist' = [hist EXCEPT ![tier] = Append(@, "loadStart")]
    /\ pc' = "Loading"
    /\ UNCHANGED <<tier, failed, failedPhase, tornDown, scaleEvents, scaleEventsMutex,
                   stopCh, informer, callback, resp, tcLocal, tc, output, 
                   changes, lastChange, atStop, reported>>
    /\ UNCHANGED <<cleanups, delivered, conditions, calls>>

\* lines 165-168, the return: a result, or an error, which is fatal
LoadReturns ==
    /\ pc = "Loading"
    /\ \/ /\ \E r \in LoadResults(tier) : resp' = [resp EXCEPT ![tier] = r]
          /\ hist' = [hist EXCEPT ![tier] = Append(@, "loadEnd")]
          /\ pc' = "CloseStopCh"
          /\ UNCHANGED <<tier, failed, failedPhase, tornDown, tcLocal>>
       \/ /\ Fatalf("load", TRUE)
          /\ UNCHANGED <<resp, hist>>
    /\ UNCHANGED <<scaleEvents, scaleEventsMutex, stopCh, informer, callback, startTime,
                   tc, output, now, changes, lastChange, atStop, reported>>
    /\ UNCHANGED <<cleanups, delivered, conditions, calls>>

\* lines 170-180: the stop channel is closed (the informer's goroutines are
\* told to stop; nothing waits for them), the result is saved and the four
\* fixed metrics are put in the tier's tc
CloseStopCh ==
    /\ pc = "CloseStopCh"
    /\ stopCh' = [stopCh EXCEPT ![tier] = "closed"]
    /\ atStop' = [atStop EXCEPT ![tier] = Taken(scaleEvents[tier])]
    /\ tcLocal' = FixedMetrics(tier, resp[tier])
    /\ hist' = [hist EXCEPT ![tier] = Append(@, "stop")]
    /\ pc' = "Lock"
    /\ UNCHANGED <<tier, failed, failedPhase, tornDown, scaleEvents, scaleEventsMutex,
                   informer, callback, startTime, resp, tc, output, now, changes, lastChange,
                   reported>>
    /\ UNCHANGED <<cleanups, delivered, conditions, calls>>

\* A report loop that does not wait for the mutex (line 182 left out)
Lock_NoWait ==
    /\ pc = "Lock"
    /\ scaleEventsMutex' = [scaleEventsMutex EXCEPT ![tier] = "test"]
    /\ pc' = "Report"
    /\ UNCHANGED <<tier, failed, failedPhase, tornDown, scaleEvents, stopCh, informer,
                   callback, startTime, resp, tcLocal, tc, output, now, hist,
                   changes, lastChange, atStop, reported>>
    /\ UNCHANGED <<cleanups, delivered, conditions, calls>>

\* line 182: scaleEventsMutex.Lock() blocks while a callback holds the mutex
Lock ==
    /\ pc = "Lock"
    /\ scaleEventsMutex[tier] = "free"
    /\ scaleEventsMutex' = [scaleEventsMutex EXCEPT ![tier] = "test"]
    /\ pc' = "Report"
    /\ UNCHANGED <<tier, failed, failedPhase, tornDown, scaleEvents, stopCh, informer,
                   callback, startTime, resp, tcLocal, tc, output, now, hist,
                   changes, lastChange, atStop, reported>>
    /\ UNCHANGED <<cleanups, delivered, conditions, calls>>

\* A tier's return that replaces the suite's records (tc = ... in line 67
\* without the append)
Report_Overwrite ==
    /\ pc = "Report"
    /\ reported' = [reported EXCEPT ![tier] = Taken(scaleEvents[tier])]
    /\ tc' = tcLocal \o ScaleRecords(tier, scaleEvents[tier], startTime[tier])
                \o PercentileRecords(tier)
    /\ tcLocal' = <<>>
    /\ scaleEventsMutex' = [scaleEventsMutex EXCEPT ![tier] = "free"]
    /\ tornDown' = [tornDown EXCEPT ![tier] = @ + 1]
    /\ hist' = [hist EXCEPT ![tier] = Append(@, "records")]
    /\ NextTier
    /\ UNCHANGED <<failed, failedPhase, scaleEvents, stopCh, informer, callback, startTime,
                   resp, output, now, changes, lastChange, atStop>>
    /\ UNCHANGED <<cleanups, delivered, conditions, calls>>

\* lines 184-195 and line 67: under the mutex, one record per scale event and
\* one per percentile; the function returns, its deferred calls run (Unlock,
\* then TearDown) and the tier's records are appended to the suite's
Report ==
    /\ pc = "Report"
    /\ reported' = [reported EXCEPT ![tier] = Taken(scaleEvents[tier])]
    /\ tc' = tc \o tcLocal \o ScaleRecords(tier, scaleEvents[tier], startTime[tier])
                \o PercentileRecords(tier)
    /\ tcLocal' = <<>>
    /\ scaleEventsMutex' = [scaleEventsMutex EXCEPT ![tier] = "free"]
    /\ tornDown' = [tornDown EXCEPT ![tier] = @ + 1]
    /\ hist' = [hist EXCEPT ![tier] = Append(@, "records")]
    /\ NextTier
    /\ UNCHANGED <<failed, failedPhase, scaleEvents, stopCh, informer, callback, startTime,
                   resp, output, now, changes, lastChange, atStop>>
    /\ UNCHANGED <<cleanups, delivered, conditions, calls>>

\* lines 70-72: the suite's records are written, or the write fails
CreateXMLOutput ==
    /\ pc = "CreateXMLOutput"
    /\ \E ok \in BOOLEAN :
         /\ output' = IF ok THEN Taken(tc) ELSE output
         /\ failed' = (failed \/ ~ok)
    /\ pc' = "Done"
    /\ UNCHANGED <<tier, failedPhase, tornDown, scaleEvents, scaleEventsMutex, stopCh,
                   informer, callback, startTime, resp, tcLocal, tc, now, hist,
                   changes, lastChange, atStop, reported>>
    /\ UNCHANGED <<cleanups, delivered, conditions, calls>>

\* ------------------------------------------------------------ the informer
\* What the claims call a count-changing notification for a matching resource
CountChanging(t, name, old, new) == Contains(name, ServiceName(t)) /\ new # old

\* The count-changing matching notifications delivered in the whole run
RECURSIVE TotalChanges(_)
TotalChanges(n) == IF n = 0 THEN 0 ELSE changes[n] + TotalChanges(n - 1)

\* A filter that forgets to compare the two counts
ShouldRecord_AnyUpdate(t, name, oldNumAddresses, newNumAddresses) ==
    Contains(name, ServiceName(t))

\* A filter that forgets to look at the object's name
ShouldRecord_AnyName(t, name, oldNumAddresses, newNumAddresses) ==
    newNumAddresses # oldNumAddresses

\* lines 135 and 138: the name filter and the comparison of the two counts
ShouldRecord(t, name, oldNumAddresses, newNumAddresses) ==
    /\ Contains(name, ServiceName(t))
    /\ newNumAddresses # oldNumAddresses

\* lines 139-143: the event, with the time of the call
NewScaleEvent(t, oldNumAddresses, newNumAddresses, ts) ==
    [oldScale |-> oldNumAddresses, newScale |-> newNumAddresses, timestamp |-> ts,
     watcher |-> t]

\* An append to one slice shared by all tiers (a package-level scaleEvents):
\* the event lands in the slice of the tier that is running
LockedAppend_SharedSlice(t, event) ==
    /\ scaleEventsMutex' = [scaleEventsMutex EXCEPT ![t] = "callback"]
    /\ scaleEvents' = IF tier \in Tiers
                      THEN [scaleEvents EXCEPT ![tier] = Append(@, event)]
                      ELSE [scaleEvents EXCEPT ![t] = Append(@, event)]
    /\ callback' = [callback EXCEPT ![t] = [at |-> "Unlock", event |-> NoEvent]]

\* An append that puts the event in front of the slice
LockedAppend_Prepend(t, event) ==
    /\ scaleEventsMutex' = [scaleEventsMutex EXCEPT ![t] = "callback"]
    /\ scaleEvents' = [scaleEvents EXCEPT ![t] = <<event>> \o @]
    /\ callback' = [callback EXCEPT ![t] = [at |-> "Unlock", event |-> NoEvent]]

\* lines 144-146 with the mutex free: it is taken and the event is appended to
\* the slice of the tier whose closure this is
LockedAppend(t, event) ==
    /\ scaleEventsMutex' = [scaleEventsMutex EXCEPT ![t] = "callback"]
    /\ scaleEvents' = [scaleEvents EXCEPT ![t] = Append(@, event)]
    /\ callback' = [callback EXCEPT ![t] = [at |-> "Unlock", event |-> NoEvent]]

\* lines 133-146, one call UpdateFunc(oldObj, newObj) by the informer of tier t
\* with an endpoints object of the given name and ready counts. The callback
\* returns at once, or builds the event and takes the mutex: with the mutex free
\* it appends in the same step (no step of the test comes between building the
\* event and appending it that the test could tell from one before or after
\* both); with the mutex held by the test it waits.
Deliver(t, name, old, new) ==
    /\ IF ShouldRecord(t, name, old, new)
       THEN \E ts \in TimeNow(t) :
              /\ now' = [now EXCEPT ![t] = ts]
              /\ IF scaleEventsMutex[t] = "free"
                 THEN LockedAppend(t, NewScaleEvent(t, old, new, ts))
                 ELSE /\ callback' = [callback EXCEPT ![t] =
                            [at |-> "Lock", event |-> NewScaleEvent(t, old, new, ts)]]
                      /\ UNCHANGED <<scaleEvents, scaleEventsMutex>>
       ELSE UNCHANGED <<now, callback, scaleEvents, scaleEventsMutex>>
    /\ changes' = [changes EXCEPT ![t] =
           IF CountChanging(t, name, old, new) THEN @ + 1 ELSE @]
    /\ lastChange' = [lastChange EXCEPT ![t] =
           IF CountChanging(t, name, old, new) THEN <<old, new>> ELSE @]
    /\ UNCHANGED <<tier, pc, failed, failedPhase, tornDown, stopCh, informer, startTime,
                   resp, tcLocal, tc, output, hist, atStop, reported>>
    /\ UNCHANGED <<cleanups, conditions, calls>>

\* The informer of tier t calls UpdateFunc, one call at a time for one
\* informer, with any endpoints object of the cluster.
UpdateFunc(t) ==
    /\ pc # "Done"
    /\ informer[t] = "running"
    /\ callback[t].at = "idle"
    /\ TotalChanges(NumTiers) < MaxNotifs
    /\ \E name \in EndpointsNames, old \in ReadyCounts, new \in ReadyCounts :
         Deliver(t, name, old, new)
    /\ UNCHANGED delivered

\* The same call, with a note of what was delivered
Notification(t) ==
    /\ informer[t] = "running"
    /\ callback[t].at = "idle"
    /\ Len(delivered[t]) < MaxDeliveries
    /\ \E name \in EndpointsNames, old \in ReadyCounts, new \in ReadyCounts :
         /\ Deliver(t, name, old, new)
         /\ delivered' = [delivered EXCEPT ![t] =
                Append(@, [name |-> name, old |-> old, new |-> new])]

\* lines 144-146 after a wait: the test has released the mutex, the callback
\* takes it and appends
UpdateFuncAppend(t) ==
    /\ callback[t].at = "Lock"
    /\ scaleEventsMutex[t] = "free"
    /\ LockedAppend(t, callback[t].event)
    /\ UNCHANGED <<tier, pc, failed, failedPhase, tornDown, stopCh, informer, startTime,
                   resp, tcLocal, tc, output, now, hist, changes, lastChange, atStop, reported>>
    /\ UNCHANGED <<cleanups, delivered, conditions, calls>>

\* line 145, the deferred Unlock: the callback returns
UpdateFuncReturn(t) ==
    /\ callback[t].at = "Unlock"
    /\ scaleEventsMutex' = [scaleEventsMutex EXCEPT ![t] = "free"]
    /\ callback' = [callback EXCEPT ![t] = Idle]
    /\ UNCHANGED <<tier, pc, failed, failedPhase, tornDown, scaleEvents, stopCh, informer,
                   startTime, resp, tcLocal, tc, output, now, hist, changes, lastChange, atStop,
                   reported>>
    /\ UNCHANGED <<cleanups, delivered, conditions, calls>>

\* The goroutines of a running informer see the closed stop channel and end, at
\* some time after close(stopCh) and between two callbacks
InformerStops(t) ==
    /\ stopCh[t] = "closed"
    /\ informer[t] = "running"
    /\ callback[t].at = "idle"
    /\ informer' = [informer EXCEPT ![t] = "stopped"]
    /\ UNCHANGED <<tier, pc, failed, failedPhase, tornDown, scaleEvents, scaleEventsMutex,
                   stopCh, callback, startTime, resp, tcLocal, tc, output, now, hist,
                   changes, lastChange, atStop, reported>>
    /\ UNCHANGED <<cleanups, delivered, conditions, calls>>

\* An interrupt (SIGINT) while the suite runs: the handler installed by
\* test.CleanupOnInterrupt calls every registered cleanup function, here the
\* TearDown of every tier that got past line 88, and the process exits; its
\* goroutines and its memory are gone, the results of the tiers that ended and
\* the teardowns done remain.
Interrupt ==
    /\ pc \notin {"Done", "Exited"}
    /\ tornDown' = [t \in Tiers |-> IF t \in cleanups THEN tornDown[t] + 1 ELSE tornDown[t]]
    /\ pc' = "Exited"
    /\ scaleEvents' = [t \in Tiers |-> <<>>]
    /\ scaleEventsMutex' = [t \in Tiers |-> "free"]
    /\ stopCh' = [t \in Tiers |-> "none"]
    /\ informer' = [t \in Tiers |-> "none"]
    /\ callback' = [t \in Tiers |-> Idle]
    /\ startTime' = [t \in Tiers |-> -1]
    /\ resp' = [t \in Tiers |-> NoResp]
    /\ tcLocal' = <<>>
    /\ tc' = <<>>
    /\ now' = [t \in Tiers |-> 0]
    /\ hist' = [t \in Tiers |-> <<>>]
    /\ changes' = [t \in Tiers |-> 0]
    /\ lastChange' = [t \in Tiers |-> <<0, 0>>]
    /\ atStop' = [t \in Tiers |-> Unset]
    /\ reported' = [t \in Tiers |-> Unset]
    /\ UNCHANGED <<tier, failed, failedPhase, output, cleanups, delivered, conditions, calls>>

Next ==
    \/ Setup
    \/ CreateService
    \/ GetIngressEndpoint
    \/ WaitForEndpointState
    \/ StartInformers
    \/ RunLoadTest
    \/ LoadReturns
    \/ CloseStopCh
    \/ Lock
    \/ Report
    \/ CreateXMLOutput
    \/ \E t \in Tiers : UpdateFunc(t)
    \/ \E t \in Tiers : UpdateFuncAppend(t)
    \/ \E t \in Tiers : UpdateFuncReturn(t)
    \/ \E t \in Tiers : InformerStops(t)
    \/ Interrupt

Spec == Init /\ [][Next]_vars

\* One tier from the start of its watcher on, with what the informer delivers
\* noted: the state in which tier 1 has passed lines 76-151 with its informer
\* running, and the steps of that tier and of its watcher after it.
InitWatcher ==
    /\ tier = 1
    /\ pc = "RunLoadTest"
    /\ failed = FALSE
    /\ failedPhase = [t \in Tiers |-> "none"]
    /\ tornDown = [t \in Tiers |-> 0]
    /\ scaleEvents = [t \in Tiers |-> <<>>]
    /\ scaleEventsMutex = [t \in Tiers |-> "free"]
    /\ stopCh = [t \in Tiers |-> IF t = 1 THEN "open" ELSE "none"]
    /\ informer = [t \in Tiers |-> IF t = 1 THEN "running" ELSE "none"]
    /\ callback = [t \in Tiers |-> Idle]
    /\ startTime = [t \in Tiers |-> -1]
    /\ resp = [t \in Tiers |-> NoResp]
    /\ tcLocal = <<>>
    /\ tc = <<>>
    /\ output = Unset
    /\ now = [t \in Tiers |-> 0]
    /\ hist = [t \in Tiers |->
                 IF t = 1 THEN <<"setup", "service", "endpoint", "ready", "watcher">>
                 ELSE <<>>]
    /\ changes = [t \in Tiers |-> 0]
    /\ lastChange = [t \in Tiers |-> <<0, 0>>]
    /\ atStop = [t \in Tiers |-> Unset]
    /\ reported = [t \in Tiers |-> Unset]
    /\ cleanups = {1}
    /\ delivered = [t \in Tiers |-> <<>>]
    /\ conditions = <<>>
    /\ calls = <<>>

NextWatcher ==
    \/ RunLoadTest
    \/ LoadReturns
    \/ CloseStopCh
    \/ Lock
    \/ Report
    \/ \E t \in Tiers : Notification(t)
    \/ \E t \in Tiers : UpdateFuncAppend(t)
    \/ \E t \in Tiers : UpdateFuncReturn(t)
    \/ \E t \in Tiers : InformerStops(t)

SpecWatcher == InitWatcher /\ [][NextWatcher]_vars

\* The scheduling the watcher's release rests on: the test's goroutine goes on
\* to its return once it holds the mutex, and a callback waiting in Lock() gets
\* the mutex once it is free (nothing else asks for a tier's mutex again).
FairSpecWatcher ==
    /\ SpecWatcher
    /\ WF_vars(Report)
    /\ \A t \in Tiers : WF_vars(UpdateFuncAppend(t))

\* ------------------------------------------------ ServerlessServiceStatus
\* The condition types: the happy condition of a living condition set, the one
\* dependent condition of serverlessServiceCondSet, and the informational one
Ready == "Ready"
EndpointsPopulated == "EndpointsPopulated"
ActivatorEndpointsPopulated == "ActivatorEndpointsPopulated"
\* serverlessServiceCondSet = apis.NewLivingConditionSet(EndpointsPopulated)
happy == Ready
dependents == {EndpointsPopulated}

\* The arguments the reconciler passes
Kinds == {"Service", "Endpoints"}
Reasons == {"NoHealthyBackends", "CreatingPublicService"}

\* The position of a type in Status.Conditions, which is kept sorted by type
TypeRank(t) ==
    IF t = ActivatorEndpointsPopulated THEN 1 ELSE IF t = EndpointsPopulated THEN 2 ELSE 3

\* The severity the condition set gives a type: Error ("") for the happy and
\* the dependent conditions, Info for the others
Severity(t) == IF t = happy \/ t \in dependents THEN "" ELSE "Info"

Condition(t, status, severity, reason, message) ==
    [Type |-> t, Status |-> status, Severity |-> severity, Reason |-> reason,
     Message |-> message, LastTransitionTime |-> 0]

\* What GetCondition returns for a type the status has no condition of
NoCondition == Condition("", "", "", "", "")

\* The time of a call: the calls are made one after the other
TimeOfCall == Len(calls) + 1

\* GetCondition(t): the condition of that type, or nil
GetCondition(conds, t) ==
    IF \E i \in 1..Len(conds) : conds[i].Type = t
    THEN conds[CHOOSE i \in 1..Len(conds) : conds[i].Type = t]
    ELSE NoCondition

\* Manage(sss).SetCondition(new): nothing when only the transition time would
\* change; else the condition replaces the one of its type, with the time of
\* the call, and the conditions stay sorted by type
SetCondition(conds, new) ==
    LET old == GetCondition(conds, new.Type)
        stamped == [new EXCEPT !.LastTransitionTime = TimeOfCall]
        below == SelectSeq(conds, LAMBDA c : TypeRank(c.Type) < TypeRank(new.Type))
        above == SelectSeq(conds, LAMBDA c : TypeRank(c.Type) > TypeRank(new.Type))
    IN  IF old # NoCondition /\ [old EXCEPT !.LastTransitionTime = 0] = new
        THEN conds
        ELSE below \o <<stamped>> \o above

\* Manage(sss).MarkTrue(t): the condition is set to True, and the happy
\* condition too when every dependent condition is True
MarkTrue(conds, t) ==
    LET c1 == SetCondition(conds, Condition(t, "True", Severity(t), "", ""))
    IN  IF \A d \in dependents : GetCondition(c1, d).Status = "True"
        THEN SetCondition(c1, Condition(happy, "True", Severity(happy), "", ""))
        ELSE c1

\* Manage(sss).MarkFalse(t, reason, message): the condition is set to False,
\* and the happy condition too when t is a dependent condition
MarkFalse(conds, t, reason, message) ==
    LET c1 == SetCondition(conds, Condition(t, "False", Severity(t), reason, message))
    IN  IF t \in dependents
        THEN SetCondition(c1, Condition(happy, "False", Severity(happy), reason, message))
        ELSE c1

\* Manage(sss).MarkUnknown(t, reason, message): the condition is set to
\* Unknown; a False dependent condition keeps (or makes) the happy condition
\* False; else the happy condition becomes Unknown when t is a dependent one
MarkUnknown(conds, t, reason, message) ==
    LET c1 == SetCondition(conds, Condition(t, "Unknown", Severity(t), reason, message))
    IN  IF \E d \in dependents : GetCondition(c1, d).Status = "False"
        THEN IF GetCondition(c1, happy).Status # "False"
             THEN MarkFalse(c1, happy, reason, message)
             ELSE c1
        ELSE IF t \in dependents
             THEN SetCondition(c1, Condition(happy, "Unknown", Severity(happy), reason,
                                             message))
             ELSE c1

\* Manage(sss).IsHappy(): the happy condition is there and True
IsHappy(conds) == GetCondition(conds, happy).Status = "True"

\* lines 87-90
IsReady(conds) == IsHappy(conds)

\* A call of a lifecycle method is noted
Called(method) ==
    /\ Len(calls) < MaxCalls
    /\ calls' = Append(calls, method)
    /\ UNCHANGED testVars

\* lines 41-44: Manage(sss).InitializeConditions(): a missing happy condition
\* becomes Unknown, and every missing dependent condition gets the happy
\* condition's status if that is True, else Unknown
InitializeConditions ==
    /\ LET c1 == IF GetCondition(conditions, happy) = NoCondition
                 THEN SetCondition(conditions,
                                   Condition(happy, "Unknown", Severity(happy), "", ""))
                 ELSE conditions
           status == IF GetCondition(c1, happy).Status = "True" THEN "True" ELSE "Unknown"
       IN  conditions' =
               IF GetCondition(c1, EndpointsPopulated) = NoCondition
               THEN SetCondition(c1, Condition(EndpointsPopulated, status,
                                               Severity(EndpointsPopulated), "", ""))
               ELSE c1
    /\ Called("InitializeConditions")

\* lines 46-49
MarkEndpointsReady ==
    /\ conditions' = MarkTrue(conditions, EndpointsPopulated)
    /\ Called("MarkEndpointsReady")

\* lines 51-56
MarkEndpointsNotOwned ==
    /\ \E kind \in Kinds :
         conditions' = MarkFalse(conditions, EndpointsPopulated, "NotOwned",
                                 <<"Resource", "sks", "of type", kind, "is not owned by SKS">>)
    /\ Called("MarkEndpointsNotOwned")

\* lines 58-67
MarkActivatorEndpointsPopulated ==
    /\ conditions' = SetCondition(conditions,
           Condition(ActivatorEndpointsPopulated, "True", "Info",
                     "ActivatorEndpointsPopulated", "Revision is backed by Activator"))
    /\ Called("MarkActivatorEndpointsPopulated")

\* The method with the type of another condition in its literal
MarkActivatorEndpointsRemoved_WrongType ==
    /\ conditions' = SetCondition(conditions,
           Condition(EndpointsPopulated, "False", "Info",
                     "ActivatorEndpointsPopulated", "Revision is backed by Activator"))
    /\ Called("MarkActivatorEndpointsRemoved")

\* lines 69-78
MarkActivatorEndpointsRemoved ==
    /\ conditions' = SetCondition(conditions,
           Condition(ActivatorEndpointsPopulated, "False", "Info",
                     "ActivatorEndpointsPopulated", "Revision is backed by Activator"))
    /\ Called("MarkActivatorEndpointsRemoved")

\* The method marking the activator's condition instead of the endpoints'
MarkEndpointsNotReady_WrongType ==
    /\ \E reason \in Reasons :
         conditions' = MarkUnknown(conditions, ActivatorEndpointsPopulated, reason,
                                   "K8s Service is not ready")
    /\ Called("MarkEndpointsNotReady")

\* lines 80-85
MarkEndpointsNotReady ==
    /\ \E reason \in Reasons :
         conditions' = MarkUnknown(conditions, EndpointsPopulated, reason,
                                   "K8s Service is not ready")
    /\ Called("MarkEndpointsNotReady")

\* Any lifecycle method is called on a new status, in any order
NextStatus ==
    \/ InitializeConditions
    \/ MarkEndpointsReady
    \/ MarkEndpointsNotOwned
    \/ MarkActivatorEndpointsPopulated
    \/ MarkActivatorEndpointsRemoved
    \/ MarkEndpointsNotReady

SpecStatus == Init /\ [][NextStatus]_vars

\* ------------------------------------------------------------ properties
\* The tier has run its first statement
Started(t) == tier > t \/ (tier = t /\ pc # "Setup")

\* The records of tier t in the suite's tc
RecordsOf(t) == SelectSeq(tc, LAMBDA r : r.test = SubtestName(t))

Has(h, x) == \E i \in 1..Len(h) : h[i] = x
Pos(h, x) == CHOOSE i \in 1..Len(h) : h[i] = x /\ \A j \in 1..(i - 1) : h[j] # x
\* In the steps h, the step b comes only after the step a
Before(h, a, b) == Has(h, b) => (Has(h, a) /\ Pos(h, a) < Pos(h, b))

\* C1: once close(stopCh) has returned, no event is appended to the tier's
\* slice: the slice then, the events read for the report and the slice at
\* every later time are the same.
C1_NoAppendAfterStop ==
    \A t \in Tiers :
        stopCh[t] = "closed" =>
            /\ atStop[t] = Taken(scaleEvents[t])
            /\ (reported[t].set => reported[t] = atStop[t])

\* C2: a tier whose load run failed has had its stop channel closed: no tier
\* ends by a load failure with its watcher still running.
C2_LoadFailureStopsWatcher ==
    \A t \in Tiers : failedPhase[t] = "load" => stopCh[t] = "closed"

\* C3 as claimed: after the first failed tier no later tier is started.
C3_SweepHalts ==
    \A t \in Tiers, u \in Tiers :
        (failedPhase[t] # "none" /\ u > t) => ~Started(u)

\* C4: in each tier the slice holds one event for every count-changing
\* matching notification processed so far and no other event, and the newest
\* event carries the two counts of the latest such notification.
C4_OneEventPerChange ==
    \A t \in Tiers :
        LET waiting == IF callback[t].at = "Lock" THEN 1 ELSE 0
            newest == IF waiting = 1 THEN callback[t].event
                      ELSE scaleEvents[t][Len(scaleEvents[t])]
        IN  /\ Len(scaleEvents[t]) + waiting = changes[t]
            /\ changes[t] > 0 => <<newest.oldScale, newest.newScale>> = lastChange[t]
            /\ \A i \in 1..Len(scaleEvents[t]) :
                   scaleEvents[t][i].oldScale # scaleEvents[t][i].newScale

C4_Witness ==
    \E t \in Tiers :
        /\ changes[t] = 1
        /\ Len(scaleEvents[t]) = 1
        /\ callback[t].at = "idle"
        /\ <<scaleEvents[t][1].oldScale, scaleEvents[t][1].newScale>> = <<0, 1>>

\* C5: a tier whose informer failed to start never goes on to the load run.
C5_FailedWatcherAbortsTier ==
    \A t \in Tiers : informer[t] = "unsynced" => startTime[t] = -1

\* C6: a tier whose load result has no sample adds no record to the suite's
\* records.
C6_NoRecordsWithoutSamples ==
    \A t \in Tiers : resp[t] = EmptyResult => RecordsOf(t) = <<>>

\* C7 as claimed: the watcher is started before the readiness wait, the load
\* run starts after the wait has succeeded, the watcher is stopped after the
\* load run has returned and the records are built after the stop.
C7_WatcherBeforeReadiness ==
    \A t \in Tiers :
        /\ (tier = t /\ pc = "WaitForEndpointState") => informer[t] # "none"
        /\ Before(hist[t], "watcher", "ready")
        /\ Before(hist[t], "ready", "loadStart")
        /\ Before(hist[t], "loadEnd", "stop")
        /\ Before(hist[t], "stop", "records")

\* The order of a tier's steps in scaleRevisionByLoad
TierSteps ==
    <<"setup", "service", "endpoint", "ready", "watcher", "loadStart", "loadEnd", "stop",
      "records">>

\* C7 as amended: the readiness wait comes first and the watcher is started
\* only after it has succeeded; the load run starts after the watcher has been
\* started; the stop channel is closed only after the load run has returned a
\* result; the records are built only after the stop channel has been closed.
\* The steps a tier has taken are always an initial part of that order.
C7_ReadinessBeforeWatcher ==
    \A t \in Tiers :
        /\ Len(hist[t]) <= Len(TierSteps)
        /\ hist[t] = SubSeq(TierSteps, 1, Len(hist[t]))
        /\ informer[t] # "none" <=> Len(hist[t]) >= 5
        /\ startTime[t] # -1 <=> Len(hist[t]) >= 6
        /\ resp[t] # NoResp <=> Len(hist[t]) >= 7
        /\ stopCh[t] = "closed" <=> Len(hist[t]) >= 8
        /\ RecordsOf(t) # <<>> <=> Len(hist[t]) = 9

C7_Witness ==
    /\ hist[1] = <<"setup", "service", "endpoint", "ready", "watcher", "loadStart",
                   "loadEnd", "stop", "records">>
    /\ RecordsOf(1) # <<>>

\* C8: while a tier's watcher exists, no earlier tier's watcher is still
\* delivering notifications.
C8_NoOverlap ==
    \A t \in Tiers, u \in Tiers :
        (t < u /\ informer[u] # "none") =>
            (informer[t] # "running" /\ callback[t].at = "idle")

\* C9: a tier's slice is empty until the tier starts its watcher, holds only
\* events recorded by that tier's own watcher, and the tier's records are built
\* from that slice alone.
C9_OwnLog ==
    \A t \in Tiers :
        /\ informer[t] = "none" => scaleEvents[t] = <<>>
        /\ \A i \in 1..Len(scaleEvents[t]) : scaleEvents[t][i].watcher = t
        /\ reported[t].set =>
              /\ \A i \in 1..Len(reported[t].val) : reported[t].val[i].watcher = t
              /\ RecordsOf(t) = FixedMetrics(t, resp[t])
                                  \o ScaleRecords(t, reported[t].val, startTime[t])
                                  \o PercentileRecords(t)

\* An event of tier 1's watcher was appended after tier 1 had ended, while
\* tier 2 was running with its own watcher
C9_Witness ==
    /\ tier = 2
    /\ informer[2] = "running"
    /\ reported[1] = Taken(<<>>)
    /\ Len(scaleEvents[1]) = 1
    /\ scaleEvents[2] = <<>>

\* C10: a tier whose readiness probe failed has ended, has marked the suite
\* failed, has started no load run and has no record in the suite's records.
C10_ReadinessFailureNoRecords ==
    \A t \in Tiers :
        failedPhase[t] = "readiness" =>
            /\ tier > t
            /\ failed
            /\ startTime[t] = -1
            /\ RecordsOf(t) = <<>>

C10_Witness ==
    /\ failedPhase[1] = "readiness"
    /\ pc = "Done"
    /\ output = Taken(tc)
    /\ tc # <<>>

\* The records of the tiers up to n that completed, in tier order
RECURSIVE CompletedRecords(_)
CompletedRecords(n) ==
    IF n = 0 THEN <<>>
    ELSE CompletedRecords(n - 1)
           \o (IF reported[n].set
               THEN FixedMetrics(n, resp[n])
                      \o ScaleRecords(n, reported[n].val, startTime[n])
                      \o PercentileRecords(n)
               ELSE <<>>)

\* C11: what CreateXMLOutput is given is, in tier order, the whole record
\* sequence of every tier that completed, whatever tiers failed before or
\* after it, and it holds no record of a tier that failed.
C11_CompletedTiersKept ==
    output.set =>
        /\ output.val = CompletedRecords(NumTiers)
        /\ \A t \in Tiers :
               failedPhase[t] # "none" =>
                   \A i \in 1..Len(output.val) : output.val[i].test # SubtestName(t)

\* Tier 1 completed, a later tier failed, and tier 1's records were written
C11_Witness ==
    /\ output.set
    /\ reported[1].set
    /\ failedPhase[2] = "load"
    /\ Len(output.val) >= 6
    /\ \A i \in 1..Len(output.val) : output.val[i].test = SubtestName(1)

\* The tier has ended: its subtest returned, or the process exited
Ended(t) == tier > t \/ pc = "Exited"

\* C12: every tier whose setup succeeded and that has ended, by completing, by
\* a fatal failure after its setup or by an interrupt, has had its TearDown
\* called at least once.
C12_TeardownOnEveryEnd ==
    \A t \in Tiers : (t \in cleanups /\ Ended(t)) => tornDown[t] >= 1

\* Tier 1 completed and was torn down, tier 2 was interrupted after its setup:
\* the handler tore down both
C12_Witness ==
    /\ pc = "Exited"
    /\ tier = 2
    /\ cleanups = {1, 2}
    /\ failedPhase[1] = "none"
    /\ tornDown[1] = 2
    /\ tornDown[2] = 1

\* C13: the records of a tier that completed are, in this order, requestCount,
\* requestedQPS (the number of clients times the rate per client), actualQPS
\* and errorsPercentage, then one record per event the report loop read, in the
\* order of the slice, then one record per percentile in the order of the
\* result's percentile list; there are 4 + events + percentiles of them.
C13_RecordOrder ==
    \A t \in Tiers :
        reported[t].set =>
            LET rs == RecordsOf(t)
                n == Len(reported[t].val)
            IN  /\ Len(rs) = 4 + n + Len(Percentiles)
                /\ <<rs[1].name.metric, rs[2].name.metric, rs[3].name.metric,
                      rs[4].name.metric>>
                     = <<"requestCount", "requestedQPS", "actualQPS", "errorsPercentage">>
                /\ <<rs[1].value, rs[2].value, rs[3].value, rs[4].value>>
                     = <<resp[t].Count, qpsPerClient * concurrentClients[t],
                         resp[t].ActualQPS, resp[t].ErrorsPercentage>>
                /\ \A i \in 1..n :
                       rs[4 + i].name = [metric |-> "scale-from-to(seconds)",
                                         a |-> reported[t].val[i].oldScale,
                                         b |-> reported[t].val[i].newScale]
                /\ \A j \in 1..Len(Percentiles) :
                       /\ rs[4 + n + j].name = [metric |-> "p(ms)",
                                                a |-> Percentiles[j].Percentile, b |-> 0]
                       /\ rs[4 + n + j].value = Percentiles[j].Value * 1000

\* Tier 1 completed with two events in its slice: eight records
C13_Witness ==
    /\ reported[1].set
    /\ Len(reported[1].val) = 2
    /\ Len(RecordsOf(1)) = 8
    /\ resp[1] = FullResult(1)

\* The scale-event records among the records rs
ScaleRecordsIn(rs) == SelectSeq(rs, LAMBDA r : r.name.metric = "scale-from-to(seconds)")

\* C14: every event the report loop read from the tier's slice has exactly one
\* scale-event record, those recorded before the load started included; no
\* event is left out.
C14_EveryEventCorrelated ==
    \A t \in Tiers :
        reported[t].set =>
            LET scale == ScaleRecordsIn(RecordsOf(t))
            IN  /\ Len(scale) = Len(reported[t].val)
                /\ \A i \in 1..Len(scale) :
                       <<scale[i].name.a, scale[i].name.b>>
                         = <<reported[t].val[i].oldScale, reported[t].val[i].newScale>>

\* An event recorded between the start of the watcher and the start of the
\* load has its record
C14_Witness ==
    /\ reported[1].set
    /\ \E i \in 1..Len(reported[1].val) : reported[1].val[i].timestamp < startTime[1]
    /\ Len(ScaleRecordsIn(RecordsOf(1))) = Len(reported[1].val)

\* C15: the value of every scale-event record is the time from the start of
\* the load to the event, in seconds: the value times the length of a second
\* is the difference of the two clock readings.
C15_ExactElapsedSeconds ==
    \A t \in Tiers :
        reported[t].set =>
            \A i \in 1..Len(reported[t].val) :
                RecordsOf(t)[4 + i].value * Second
                  = reported[t].val[i].timestamp - startTime[t]

\* The endpoints object of the service that tier t's test created
Matches(t, name) == name = ServiceName(t) \o <<"private">>

\* C16: the delivery of a notification whose object's name does not match the
\* tier's service leaves the tier's slice, its mutex and its callback as they
\* were, whatever the two ready counts are; a delivery that appends an event or
\* starts an append is one for a matching object.
C16_OnlyMatchingAppend ==
    [][\A t \in Tiers :
         delivered'[t] # delivered[t] =>
            LET n == delivered'[t][Len(delivered'[t])]
            IN  ~Matches(t, n.name) =>
                   /\ scaleEvents'[t] = scaleEvents[t]
                   /\ scaleEventsMutex'[t] = scaleEventsMutex[t]
                   /\ callback'[t] = callback[t]]_vars

\* Two count-changing notifications for other objects were delivered: nothing
\* was recorded
C16_Witness ==
    /\ Len(delivered[1]) = 2
    /\ \A i \in 1..2 : ~Matches(1, delivered[1][i].name) /\ delivered[1][i].old # delivered[1][i].new
    /\ delivered[1][1].name # delivered[1][2].name
    /\ scaleEvents[1] = <<>>
    /\ callback[1] = Idle

\* The mutex of each tier's slice excludes the report loop's read and a
\* callback's append from one another
MutexExcludes ==
    \A t \in Tiers :
        /\ (tier = t /\ pc = "Report") => scaleEventsMutex[t] = "test"
        /\ callback[t].at = "Unlock" => scaleEventsMutex[t] = "callback"
        /\ scaleEventsMutex[t] = "test" => (tier = t /\ pc = "Report")
        /\ scaleEventsMutex[t] = "callback" => callback[t].at = "Unlock"
        /\ ~(tier = t /\ pc = "Report" /\ callback[t].at = "Unlock")

\* C17: the report loop reads the slice only while it holds the mutex and a
\* callback appends only while it holds it, so a read and an append are never
\* both in progress; and a callback that waits for the mutex while the records
\* are built gets it after the tier has returned and appends.
C17_MutexGuardsLog ==
    /\ []MutexExcludes
    /\ \A t \in Tiers : (callback[t].at = "Lock") ~> (callback[t].at = "Unlock")

\* A callback waits for the mutex that the report loop holds
C17_Witness ==
    /\ pc = "Report"
    /\ scaleEventsMutex[1] = "test"
    /\ callback[1].at = "Lock"

\* The old and new counts of the events evs, in order
CountsOf(evs) == [i \in 1..Len(evs) |-> <<evs[i].oldScale, evs[i].newScale>>]

\* The old and new counts of the count-changing notifications for the tier's
\* service among the deliveries ds, in the order of delivery
ChangesIn(t, ds) ==
    LET cs == SelectSeq(ds, LAMBDA d : Matches(t, d.name) /\ d.old # d.new)
    IN  [i \in 1..Len(cs) |-> <<cs[i].old, cs[i].new>>]

\* The slice is in the order of delivery
InArrivalOrder ==
    \A t \in Tiers :
        LET waiting == IF callback[t].at = "Lock" THEN <<callback[t].event>> ELSE <<>>
        IN  CountsOf(scaleEvents[t] \o waiting) = ChangesIn(t, delivered[t])

\* C18: the events of a tier's slice are those of the count-changing
\* notifications delivered to its watcher, in the order of delivery, and no
\* step removes an event from the slice, changes one or moves one: the slice
\* before a step is an initial part of the slice after it.
C18_ArrivalOrderAppendOnly ==
    /\ []InArrivalOrder
    /\ [][\A t \in Tiers :
            /\ Len(scaleEvents'[t]) >= Len(scaleEvents[t])
            /\ SubSeq(scaleEvents'[t], 1, Len(scaleEvents[t])) = scaleEvents[t]]_vars

\* Two events in the slice, from a scale-up and then a scale-down
C18_Witness ==
    /\ Len(scaleEvents[1]) = 2
    /\ CountsOf(scaleEvents[1]) = << <<0, 1>>, <<1, 0>> >>
    /\ scaleEvents[1][1].timestamp < scaleEvents[1][2].timestamp

\* The last call that set the endpoints' condition, or "none"
LastEndpointsCall ==
    LET cs == SelectSeq(calls, LAMBDA m : m \in {"MarkEndpointsReady", "MarkEndpointsNotOwned",
                                                  "MarkEndpointsNotReady"})
    IN  IF cs = <<>> THEN "none" ELSE cs[Len(cs)]

\* C19: after any calls of the lifecycle methods IsReady() is true exactly when
\* the EndpointsPopulated condition is True, which is exactly when
\* MarkEndpointsReady was called and neither MarkEndpointsNotOwned nor
\* MarkEndpointsNotReady after it; a status that was only initialized is not
\* ready.
C19_ReadyIffEndpointsPopulated ==
    /\ IsReady(conditions) <=> GetCondition(conditions, EndpointsPopulated).Status = "True"
    /\ IsReady(conditions) <=> LastEndpointsCall = "MarkEndpointsReady"

\* Ready, then not ready, then ready again with the activator's condition set
C19_Witness ==
    /\ calls = <<"MarkEndpointsNotReady", "MarkEndpointsReady", "MarkActivatorEndpointsRemoved">>
    /\ IsReady(conditions)
    /\ Len(conditions) = 3

\* C20: a call of MarkActivatorEndpointsPopulated or of
\* MarkActivatorEndpointsRemoved leaves the status with an
\* ActivatorEndpointsPopulated condition that is True or False respectively,
\* and leaves every other condition, the EndpointsPopulated condition among
\* them, and the result of IsReady() as they were.
C20_ActivatorMarksOnlyOwnCondition ==
    [][(calls' # calls /\ calls'[Len(calls')] \in {"MarkActivatorEndpointsPopulated",
                                                     "MarkActivatorEndpointsRemoved"}) =>
          /\ GetCondition(conditions', ActivatorEndpointsPopulated).Status
               = IF calls'[Len(calls')] = "MarkActivatorEndpointsPopulated"
                 THEN "True" ELSE "False"
          /\ GetCondition(conditions', EndpointsPopulated)
               = GetCondition(conditions, EndpointsPopulated)
          /\ GetCondition(conditions', Ready) = GetCondition(conditions, Ready)
          /\ IsReady(conditions') = IsReady(conditions)]_vars

\* A ready status whose activator endpoints were removed is still ready
C20_Witness ==
    /\ calls = <<"InitializeConditions", "MarkEndpointsReady", "MarkActivatorEndpointsRemoved">>
    /\ GetCondition(conditions, ActivatorEndpointsPopulated).Status = "False"
    /\ GetCondition(conditions, EndpointsPopulated).Status = "True"
    /\ IsReady(conditions)

====
